---- MODULE Spec2Model ----
(***************************************************************************)
(* Model of image_resizer_for_flux_lora_training/resize.py.                *)
(*                                                                         *)
(* Three specifications share the operators translated from the source:    *)
(*   SpecCrop  - ImageProcessor.process_image on one image: crop           *)
(*               selection, compositing, resizing (pure geometry);         *)
(*   SpecNames - output naming of two work items of one batch;             *)
(*   Spec      - main(): argument parsing, enumeration of raw/, the        *)
(*               worker pool, process_image_worker and the file writes.    *)
(* An image is its size <<w, h>>; a crop is the rectangle                  *)
(* <<x0, y0, x1, y1>> handed to img.crop; a file name is a sequence of     *)
(* one-character strings.                                                  *)
(***************************************************************************)
EXTENDS Integers, Sequences, FiniteSets, TLC

VARIABLES
    \* SpecCrop: one call of process_image
    timg,        \* img.size of the opened image, <<w, h>>
    tmode,       \* the mode argument
    tpc,         \* position in process_image
    tcrops,      \* crops returned by crop_vertical / crop_horizontal
    tsuffixes,   \* suffixes returned with them
    touts,       \* what the loop of lines 112-119 has saved so far
    \* SpecNames: two work items of one batch
    nfiles,      \* the two file names listed in raw/
    nsizes,      \* the size of each image
    nmode,       \* the batch's mode
    nwrites,     \* [item, path] of every save
    ndone,       \* the items whose process_image has run
    \* Spec: a whole run of main()
    argMode,     \* the positional argument mode
    argWorkers,  \* the value of --workers
    rawExists,   \* whether <cwd>/raw exists
    listing,     \* what os.listdir(input_dir) returns
    mpc,         \* position of main()
    exitCode,    \* exit status of the process once mpc = "exited"
    alive,       \* FALSE once the process has been terminated from outside
    work_items,  \* the list built at lines 149-153
    taskq,       \* chunks of work items not yet taken by a worker
    wk,          \* per pool worker: its chunk, its item and its position
    fs,          \* the output files: path -> [state, by]
    attempts,    \* per work item: how many times process_image_worker ran on it
    handlers,    \* per work item: the workers that ran it
    result,      \* per work item: "none", "ok" or "failed"
    written,     \* per work item: the suffixes whose save returned
    opened       \* number of Image.open calls made

cropVars == <<timg, tmode, tpc, tcrops, tsuffixes, touts>>
nameVars == <<nfiles, nsizes, nmode, nwrites, ndone>>
mainVars == <<argMode, argWorkers, rawExists, listing, mpc, exitCode, alive,
              work_items, taskq, wk, fs, attempts, handlers, result, written,
              opened>>
vars == <<cropVars, nameVars, mainVars>>

(***************************************************************************)
(* Bounds of the model.                                                    *)
(***************************************************************************)
MaxDim == 6
MaxStemLen == 2
MaxFiles == 2
MaxWorkers == 2
MaxModeArg == 4

\* Sizes of the spec's concrete scenarios, added to 1..MaxDim.
ScenarioDims == {800, 1000, 2000}
ImageDims == (1 .. MaxDim) \cup ScenarioDims

Max(a, b) == IF a >= b THEN a ELSE b
Min(a, b) == IF a <= b THEN a ELSE b

(***************************************************************************)
(* class Mode(IntEnum)                                                     *)
(***************************************************************************)
CENTER_ONLY == 1
NON_CENTER == 2
ALL == 3
Mode == {CENTER_ONLY, NON_CENTER, ALL}

(***************************************************************************)
(* Transform engine.                                                       *)
(***************************************************************************)
target_ratio == 1
OutDim == 512

\* int(a / r) and int(a * r) for the positive integral ratio of line 101
IntDivRatio(a, r) == a \div r
IntMulRatio(a, r) == a * r

\* size of the image img.crop(rect) returns
CropSize(rect) == <<rect[3] - rect[1], rect[4] - rect[2]>>

\* the mode filter shared by the tails of crop_vertical and crop_horizontal
FilterMode(all_crops, all_suffixes, mode) ==
    IF mode = CENTER_ONLY
    THEN [crops |-> <<all_crops[2]>>, suffixes |-> <<all_suffixes[2]>>]
    ELSE IF mode = NON_CENTER
    THEN [crops |-> <<all_crops[1], all_crops[3]>>,
          suffixes |-> <<all_suffixes[1], all_suffixes[3]>>]
    ELSE [crops |-> all_crops, suffixes |-> all_suffixes]

VerticalSuffixes == << <<"_", "S">>, <<"_", "C">>, <<"_", "E">> >>
HorizontalSuffixes == << <<"_", "L">>, <<"_", "C">>, <<"_", "R">> >>

\* seeded fault: the crop height taken from the height, not from the width
crop_vertical_full_height(w, h, ratio, mode) ==
    LET new_height == IntDivRatio(h, ratio)
        all_crops == << <<0, 0, w, new_height>>,
                        <<0, (h - new_height) \div 2, w,
                          (h - new_height) \div 2 + new_height>>,
                        <<0, h - new_height, w, h>> >>
    IN FilterMode(all_crops, VerticalSuffixes, mode)

crop_vertical(w, h, ratio, mode) ==
    LET new_height == IntDivRatio(w, ratio)
        all_crops == << <<0, 0, w, new_height>>,
                        <<0, (h - new_height) \div 2, w,
                          (h - new_height) \div 2 + new_height>>,
                        <<0, h - new_height, w, h>> >>
    IN FilterMode(all_crops, VerticalSuffixes, mode)

\* seeded fault: the centre crop starts at the middle column
crop_horizontal_off_centre(w, h, ratio, mode) ==
    LET new_width == IntMulRatio(h, ratio)
        all_crops == << <<0, 0, new_width, h>>,
                        <<w \div 2, 0, w \div 2 + new_width, h>>,
                        <<w - new_width, 0, w, h>> >>
    IN FilterMode(all_crops, HorizontalSuffixes, mode)

crop_horizontal(w, h, ratio, mode) ==
    LET new_width == IntMulRatio(h, ratio)
        all_crops == << <<0, 0, new_width, h>>,
                        <<(w - new_width) \div 2, 0,
                          (w - new_width) \div 2 + new_width, h>>,
                        <<w - new_width, 0, w, h>> >>
    IN FilterMode(all_crops, HorizontalSuffixes, mode)

\* seeded fault: ties go to vertical
SelectCrops_tie_vertical(w, h, mode) ==
    IF h >= w THEN crop_vertical(w, h, target_ratio, mode)
              ELSE crop_horizontal(w, h, target_ratio, mode)

\* lines 100-104: the orientation test and the crop selection
SelectCrops(w, h, mode) ==
    IF h > w THEN crop_vertical(w, h, target_ratio, mode)
             ELSE crop_horizontal(w, h, target_ratio, mode)

\* seeded fault: the canvas is saved as it is
Resize_skipped(size) == size

\* line 116: square.resize((512, 512))
Resize(size) == <<OutDim, OutDim>>

\* lines 113-116: the black square canvas, the centred paste, the resize
Composite(rect) ==
    LET size == CropSize(rect)
        max_dim == Max(size[1], size[2])
        square == <<max_dim, max_dim>>
    IN [rect |-> rect,
        canvas |-> square,
        offset |-> <<(max_dim - size[1]) \div 2, (max_dim - size[2]) \div 2>>,
        size |-> Resize(square)]

(***************************************************************************)
(* File names and paths.  A path is [dir, name]: the directory as a        *)
(* sequence of components, the file name as a sequence of characters.      *)
(***************************************************************************)
PNG == <<".", "p", "n", "g">>
JPG == <<".", "j", "p", "g">>

\* str.endswith
endswith(s, t) ==
    /\ Len(s) >= Len(t)
    /\ SubSeq(s, Len(s) - Len(t) + 1, Len(s)) = t

\* line 151: filename.endswith(('.png', '.jpg'))
Eligible(filename) == endswith(filename, PNG) \/ endswith(filename, JPG)

\* os.path.splitext on a name without separators: split at the last dot,
\* unless only dots precede it
split_ext(p) ==
    LET dots == {i \in 1 .. Len(p) : p[i] = "."}
        dotIndex == IF dots = {} THEN 0
                    ELSE CHOOSE i \in dots : \A j \in dots : j <= i
    IN IF dotIndex > 0 /\ \E i \in 1 .. (dotIndex - 1) : p[i] # "."
       THEN <<SubSeq(p, 1, dotIndex - 1), SubSeq(p, dotIndex, Len(p))>>
       ELSE <<p, <<>> >>

join_paths(dir, name) == [dir |-> dir, name |-> name]
dirname(path) == path.dir
get_basename(path) == path.name

\* fs.getcwd() and line 145
Cwd == <<"cwd">>
input_dir == Append(Cwd, "raw")

\* line 107: join_paths(os.path.dirname(file_path), '..')
OutputDir(file_path) == Append(dirname(file_path), "..")

\* seeded fault: the base file name ends at the first dot of the name
OutputPath_first_dot(file_path, suffix) ==
    LET name == get_basename(file_path)
        dots == {i \in 2 .. Len(name) : name[i] = "."}
        first == IF dots = {} THEN Len(name) + 1
                 ELSE CHOOSE i \in dots : \A j \in dots : i <= j
    IN join_paths(OutputDir(file_path),
                  SubSeq(name, 1, first - 1) \o suffix \o PNG)

\* lines 110 and 118: f"{base_filename}{suffix}.png" under output_dir
OutputPath(file_path, suffix) ==
    LET base_filename == split_ext(get_basename(file_path))[1]
    IN join_paths(OutputDir(file_path), base_filename \o suffix \o PNG)

\* the directory a sequence of components names, ".." stepping up
RECURSIVE Resolve(_)
Resolve(dir) ==
    IF dir = <<>> THEN <<>>
    ELSE LET front == Resolve(SubSeq(dir, 1, Len(dir) - 1))
             last == dir[Len(dir)]
         IN IF last = ".." /\ front # <<>>
            THEN SubSeq(front, 1, Len(front) - 1)
            ELSE Append(front, last)

(***************************************************************************)
(* SpecCrop: process_image on one image of any size, in any mode.          *)
(***************************************************************************)
SampleFile == join_paths(input_dir, <<"i", "m", "g">> \o PNG)

NoMain ==
    /\ argMode = 0 /\ argWorkers = [isInt |-> TRUE, value |-> 0]
    /\ rawExists = FALSE /\ listing = <<>> /\ mpc = "off" /\ exitCode = 0
    /\ alive = FALSE /\ work_items = <<>> /\ taskq = <<>> /\ wk = <<>>
    /\ fs = <<>> /\ attempts = <<>> /\ handlers = <<>> /\ result = <<>>
    /\ written = <<>> /\ opened = 0

NoNames ==
    /\ nfiles = <<>> /\ nsizes = <<>> /\ nmode = 0 /\ nwrites = {}
    /\ ndone = {}

NoCrop ==
    /\ timg = <<0, 0>> /\ tmode = 0 /\ tpc = "off" /\ tcrops = <<>>
    /\ tsuffixes = <<>> /\ touts = <<>>

InitCrop ==
    /\ timg \in ImageDims \X ImageDims
    /\ tmode \in Mode
    /\ tpc = "open"
    /\ tcrops = <<>>
    /\ tsuffixes = <<>>
    /\ touts = <<>>
    /\ NoNames
    /\ NoMain

\* lines 99-110: open, read the size, select the crops
TSelect ==
    /\ tpc = "open"
    /\ LET sel == SelectCrops(timg[1], timg[2], tmode)
       IN /\ tcrops' = sel.crops
          /\ tsuffixes' = sel.suffixes
    /\ tpc' = "loop"
    /\ UNCHANGED <<timg, tmode, touts>>

\* lines 112-119: one iteration of the loop over zip(crops, suffixes)
TSave ==
    /\ tpc = "loop"
    /\ LET k == Len(touts) + 1
           out == Composite(tcrops[k])
       IN /\ touts' = Append(touts,
                 [suffix |-> tsuffixes[k],
                  rect |-> out.rect,
                  canvas |-> out.canvas,
                  offset |-> out.offset,
                  size |-> out.size,
                  path |-> OutputPath(SampleFile, tsuffixes[k])])
          /\ tpc' = IF k = Min(Len(tcrops), Len(tsuffixes))
                    THEN "done" ELSE "loop"
    /\ UNCHANGED <<timg, tmode, tcrops, tsuffixes>>

NextCrop ==
    \/ TSelect /\ UNCHANGED <<nameVars, mainVars>>
    \/ TSave /\ UNCHANGED <<nameVars, mainVars>>

SpecCrop == InitCrop /\ [][NextCrop]_vars

(***************************************************************************)
(* Claims about the transform (SpecCrop).                                  *)
(***************************************************************************)
Suffix(c) == <<"_", c>>
OutSuffixes == [i \in 1 .. Len(touts) |-> touts[i].suffix]
CropDone == tpc = "done"
Selected == tpc \in {"loop", "done"}

\* the sequence of suffixes the claim prescribes for an image and a mode
ClaimedSuffixes(w, h, mode) ==
    LET three == IF h > w THEN <<Suffix("S"), Suffix("C"), Suffix("E")>>
                          ELSE <<Suffix("L"), Suffix("C"), Suffix("R")>>
    IN CASE mode = CENTER_ONLY -> <<three[2]>>
         [] mode = NON_CENTER -> <<three[1], three[3]>>
         [] mode = ALL -> three

ClaimedCount(mode) ==
    CASE mode = CENTER_ONLY -> 1 [] mode = NON_CENTER -> 2 [] mode = ALL -> 3

\* C1: process_image emits one output per suffix, in the order [_S,_C,_E]
\* (h > w) or [_L,_C,_R] (h <= w) filtered by the mode: index 1 for
\* CENTER_ONLY, indices 0 and 2 for NON_CENTER, all three for ALL; so 1, 2
\* or 3 outputs per input, square inputs included.
C1_SuffixSequence ==
    LET claimed == ClaimedSuffixes(timg[1], timg[2], tmode)
    IN /\ Selected => OutSuffixes = SubSeq(claimed, 1, Len(touts))
       /\ CropDone => /\ OutSuffixes = claimed
                      /\ Len(touts) = ClaimedCount(tmode)
                      /\ \A i, j \in 1 .. Len(touts) :
                            touts[i].path = touts[j].path => i = j

C1_Witness ==
    /\ CropDone /\ timg[1] = timg[2] /\ tmode = NON_CENTER
    /\ OutSuffixes = <<Suffix("L"), Suffix("R")>>

\* the three candidate rectangles the claim prescribes
ClaimedRects(w, h) ==
    IF h > w
    THEN << <<0, 0, w, w>>,
            <<0, (h - w) \div 2, w, (h - w) \div 2 + w>>,
            <<0, h - w, w, h>> >>
    ELSE << <<0, 0, h, h>>,
            <<(w - h) \div 2, 0, (w - h) \div 2 + h, h>>,
            <<w - h, 0, w, h>> >>

ClaimedSelection(three, mode) ==
    CASE mode = CENTER_ONLY -> <<three[2]>>
      [] mode = NON_CENTER -> <<three[1], three[3]>>
      [] mode = ALL -> three

\* C2: with ratio 1.0 the candidate rectangles are (0,0,w,w),
\* (0,(h-w)//2,w,(h-w)//2+w), (0,h-w,w,h) when h > w, and (0,0,h,h),
\* ((w-h)//2,0,(w-h)//2+h,h), (w-h,0,w,h) when h <= w; 1000x2000 gives rows
\* [0,1000), [500,1500), [1000,2000); 2000x1000 a centre crop of columns
\* [500,1500).
C2_CropRectangles ==
    Selected =>
        /\ tcrops = ClaimedSelection(ClaimedRects(timg[1], timg[2]), tmode)
        /\ (timg = <<1000, 2000>> /\ tmode = ALL) =>
               tcrops = << <<0, 0, 1000, 1000>>, <<0, 500, 1000, 1500>>,
                           <<0, 1000, 1000, 2000>> >>
        /\ (timg = <<2000, 1000>> /\ tmode = CENTER_ONLY) =>
               tcrops = << <<500, 0, 1500, 1000>> >>

C2_Witness ==
    /\ CropDone /\ timg = <<2000, 1000>> /\ tmode = CENTER_ONLY
    /\ touts[1].rect = <<500, 0, 1500, 1000>>

\* C3: every output image process_image writes is exactly 512x512, for
\* every input size, orientation and mode.
C3_OutputSize ==
    \A i \in 1 .. Len(touts) : touts[i].size = <<512, 512>>

C3_Witness ==
    /\ CropDone /\ timg = <<1, 2000>> /\ tmode = ALL /\ Len(touts) = 3

\* C10: every crop rectangle lies within the source image and is a square
\* of side min(w, h); so the canvas has the size of the crop, both paste
\* offsets are 0 and no padding is added.
C10_CropWithinImage ==
    \A i \in 1 .. Len(touts) :
        LET r == touts[i].rect
            w == timg[1]
            h == timg[2]
        IN /\ 0 <= r[1] /\ r[1] < r[3] /\ r[3] <= w
           /\ 0 <= r[2] /\ r[2] < r[4] /\ r[4] <= h
           /\ CropSize(r) = <<Min(w, h), Min(w, h)>>
           /\ touts[i].canvas = CropSize(r)
           /\ touts[i].offset = <<0, 0>>

C10_Witness ==
    /\ CropDone /\ timg = <<5, 2>> /\ tmode = ALL
    /\ touts[2].rect = <<1, 0, 3, 2>>

(***************************************************************************)
(* SpecNames: the output paths of two work items of one batch.             *)
(***************************************************************************)
Alphabet == {"a", "_", "."}
Stems == UNION {[1 .. n -> Alphabet] : n \in 0 .. MaxStemLen}
NameSet == {stem \o ext : stem \in Stems, ext \in {PNG, JPG}}
NameSizes == {<<1, 2>>, <<2, 1>>}

InitNames ==
    /\ nfiles \in {pair \in NameSet \X NameSet : pair[1] # pair[2]}
    /\ nsizes \in NameSizes \X NameSizes
    /\ nmode \in Mode
    /\ nwrites = {}
    /\ ndone = {}
    /\ NoCrop
    /\ NoMain

\* process_image on work item i = (join_paths(input_dir, filename), mode)
NProcess(i) ==
    /\ i \notin ndone
    /\ Eligible(nfiles[i])
    /\ LET file_path == join_paths(input_dir, nfiles[i])
           sel == SelectCrops(nsizes[i][1], nsizes[i][2], nmode)
       IN nwrites' = nwrites \cup
              {[item |-> i, path |-> OutputPath(file_path, sel.suffixes[k])] :
                   k \in 1 .. Len(sel.suffixes)}
    /\ ndone' = ndone \cup {i}
    /\ UNCHANGED <<nfiles, nsizes, nmode>>

NextNames ==
    \E i \in 1 .. 2 : NProcess(i) /\ UNCHANGED <<cropVars, mainVars>>

SpecNames == InitNames /\ [][NextNames]_vars

\* the input name without its extension
BaseName(name) == split_ext(name)[1]
ParentDir(dir) == SubSeq(dir, 1, Len(dir) - 1)
PathsOf(i) == {wr.path : wr \in {x \in nwrites : x.item = i}}

\* C7: each output path is <parent of the input's directory>/<base file
\* name><suffix>.png, and two work items of a batch whose base file names
\* differ write disjoint sets of paths, in every mode and for every
\* combination of orientations; overlap needs a shared base file name.
C7_DisjointOutputPaths ==
    /\ \A i \in ndone :
           LET claimed == ClaimedSuffixes(nsizes[i][1], nsizes[i][2], nmode)
           IN /\ {p.name : p \in PathsOf(i)} =
                     {BaseName(nfiles[i]) \o claimed[k] \o PNG :
                          k \in 1 .. Len(claimed)}
              /\ \A p \in PathsOf(i) : Resolve(p.dir) = ParentDir(input_dir)
    /\ BaseName(nfiles[1]) # BaseName(nfiles[2]) =>
           PathsOf(1) \cap PathsOf(2) = {}

C7_Witness ==
    /\ ndone = {1, 2}
    /\ nfiles = << <<"a", "_">> \o PNG, <<"a">> \o JPG >>
    /\ nmode = ALL
    /\ nsizes = << <<1, 2>>, <<2, 1>> >>
    /\ Cardinality(PathsOf(1) \cup PathsOf(2)) = 6

(***************************************************************************)
(* Spec: a run of main() with its pool of workers.                         *)
(***************************************************************************)
\* line 132: choices=[1, 2, 3]
Choices == {1, 2, 3}

\* values of --workers: text that is no integer, or an integer
WorkerArgs ==
    {[isInt |-> FALSE, value |-> 0]} \cup
    {[isInt |-> TRUE, value |-> v] : v \in -1 .. MaxWorkers}

\* names that may be found in raw/, in the order os.listdir gives them (the
\* order in which the items are then processed is left to the workers)
DirOrder == << <<"a">> \o PNG, <<"a">> \o JPG, <<"b">> \o PNG,
               <<"n", ".", "t", "x", "t">> >>

\* the names of DirOrder at the positions in S
ListingOf(S) ==
    LET listed(i) == i \in S
        idx == SelectSeq([i \in 1 .. Len(DirOrder) |-> i], listed)
    IN [j \in 1 .. Len(idx) |-> DirOrder[idx[j]]]

\* what raw/ may hold: up to MaxFiles of these names
Listings ==
    {ListingOf(S) : S \in {T \in SUBSET (1 .. Len(DirOrder)) :
                               Cardinality(T) <= MaxFiles}}

\* img.size of the image a file of raw/ holds: a.png is vertical, the
\* others are horizontal
StoredSize(filename) ==
    IF filename = <<"a">> \o PNG THEN <<1, 2>> ELSE <<2, 1>>

IdleWorker(chunk) ==
    [pc |-> "idle", chunk |-> chunk, item |-> 0, crops |-> <<>>,
     suffixes |-> <<>>, k |-> 0, created |-> FALSE]

Items == 1 .. Len(work_items)
Workers == DOMAIN wk

Init ==
    /\ argMode \in 0 .. MaxModeArg
    /\ argWorkers \in WorkerArgs
    /\ rawExists \in BOOLEAN
    /\ listing \in IF rawExists THEN Listings ELSE {<<>>}
    /\ mpc = "parse"
    /\ exitCode = 0
    /\ alive = TRUE
    /\ work_items = <<>>
    /\ taskq = <<>>
    /\ wk = <<>>
    /\ fs = <<>>
    /\ attempts = <<>>
    /\ handlers = <<>>
    /\ result = <<>>
    /\ written = <<>>
    /\ opened = 0
    /\ NoCrop
    /\ NoNames

Exit(code) ==
    /\ mpc' = "exited"
    /\ exitCode' = code

\* lines 131-136 and 142: argparse rejects a mode outside choices and a
\* --workers that is no integer (usage error, status 2); Mode(args.mode)
\* raises ValueError on a value that is no member
ParseArgs ==
    /\ alive /\ mpc = "parse"
    /\ IF argMode \notin Choices \/ ~argWorkers.isInt THEN Exit(2)
       ELSE IF argMode \notin Mode THEN Exit(1)
       ELSE mpc' = "enumerate" /\ UNCHANGED exitCode
    /\ UNCHANGED <<argMode, argWorkers, rawExists, listing, alive, work_items,
                   taskq, wk, fs, attempts, handlers, result, written, opened>>

\* seeded fault: a missing directory lists as an empty one
list_directory_lenient(path) ==
    [raised |-> FALSE, names |-> listing]

\* os.listdir(path): FileNotFoundError when the directory is missing
list_directory(path) ==
    IF rawExists THEN [raised |-> FALSE, names |-> listing]
                 ELSE [raised |-> TRUE, names |-> <<>>]

\* lines 145-153: list raw/ and build the work items, in listing order
Enumerate ==
    /\ alive /\ mpc = "enumerate"
    /\ LET ls == list_directory(input_dir)
           names == SelectSeq(ls.names, Eligible)
       IN IF ls.raised
          THEN /\ Exit(1)
               /\ UNCHANGED <<work_items, attempts, handlers, result, written>>
          ELSE /\ work_items' =
                      [i \in 1 .. Len(names) |->
                          [file_path |-> join_paths(input_dir, names[i]),
                           mode |-> argMode]]
               /\ attempts' = [i \in 1 .. Len(names) |-> 0]
               /\ handlers' = [i \in 1 .. Len(names) |-> {}]
               /\ result' = [i \in 1 .. Len(names) |-> "none"]
               /\ written' = [i \in 1 .. Len(names) |-> <<>>]
               /\ mpc' = "pool"
               /\ UNCHANGED exitCode
    /\ UNCHANGED <<argMode, argWorkers, rawExists, listing, alive, taskq, wk,
                   fs, opened>>

\* Pool.map's default chunk size: divmod(len(iterable), len(pool) * 4)
ChunkSize(n, processes) ==
    IF n = 0 THEN 0
    ELSE LET q == n \div (processes * 4)
             r == n % (processes * 4)
         IN IF r > 0 THEN q + 1 ELSE q

\* the work items 1..n cut into chunks of that size
Chunks(n, size) ==
    IF n = 0 THEN <<>>
    ELSE [c \in 1 .. ((n + size - 1) \div size) |->
             [j \in 1 .. (Min(c * size, n) - (c - 1) * size) |->
                 (c - 1) * size + j]]

\* lines 156-158: Pool(processes=args.workers) raises ValueError below 1;
\* pool.map queues the work items in chunks
StartPool ==
    /\ alive /\ mpc = "pool"
    /\ IF argWorkers.value < 1
       THEN Exit(1) /\ UNCHANGED <<wk, taskq>>
       ELSE /\ wk' = [k \in 1 .. argWorkers.value |-> IdleWorker(<<>>)]
            /\ taskq' = Chunks(Len(work_items),
                               ChunkSize(Len(work_items), argWorkers.value))
            /\ mpc' = "map"
            /\ UNCHANGED exitCode
    /\ UNCHANGED <<argMode, argWorkers, rawExists, listing, alive, work_items,
                   fs, attempts, handlers, result, written, opened>>

\* seeded fault: the task stays on the queue
NextTask_peek(k) ==
    IF wk[k].chunk # <<>>
    THEN [chunk |-> wk[k].chunk, queue |-> taskq]
    ELSE [chunk |-> Head(taskq), queue |-> taskq]

\* a pool worker goes on with its chunk, or takes the next one off the queue
NextTask(k) ==
    IF wk[k].chunk # <<>>
    THEN [chunk |-> wk[k].chunk, queue |-> taskq]
    ELSE [chunk |-> Head(taskq), queue |-> Tail(taskq)]

\* seeded fault: no try/except in the worker: pool.map re-raises in main()
HandleException_propagate(k, item, rest) ==
    /\ result' = [result EXCEPT ![item] = "failed"]
    /\ wk' = [wk EXCEPT ![k] = IdleWorker(rest)]
    /\ Exit(1)

\* lines 127-128: the worker logs the error and returns
HandleException(k, item, rest) ==
    /\ result' = [result EXCEPT ![item] = "failed"]
    /\ wk' = [wk EXCEPT ![k] = IdleWorker(rest)]
    /\ UNCHANGED <<mpc, exitCode>>

\* lines 122-126 and 98-110: process_image_worker on the worker's next item:
\* Image.open, the crop selection (which decodes), makedirs, split_ext
WorkerStart(k) ==
    /\ alive /\ mpc = "map"
    /\ wk[k].pc = "idle"
    /\ wk[k].chunk # <<>> \/ taskq # <<>>
    /\ LET task == NextTask(k)
           item == Head(task.chunk)
           rest == Tail(task.chunk)
       IN /\ taskq' = task.queue
          /\ attempts' = [attempts EXCEPT ![item] = @ + 1]
          /\ handlers' = [handlers EXCEPT ![item] = @ \cup {k}]
          /\ opened' = opened + 1
          /\ \E decodes \in BOOLEAN :
                IF decodes
                THEN LET size == StoredSize(
                                     get_basename(work_items[item].file_path))
                         sel == SelectCrops(size[1], size[2],
                                            work_items[item].mode)
                     IN /\ wk' = [wk EXCEPT ![k] =
                               [pc |-> "loop", chunk |-> rest, item |-> item,
                                crops |-> sel.crops,
                                suffixes |-> sel.suffixes,
                                k |-> 1, created |-> FALSE]]
                        /\ UNCHANGED <<result, mpc, exitCode>>
                ELSE HandleException(k, item, rest)
    /\ UNCHANGED <<argMode, argWorkers, rawExists, listing, alive, work_items,
                   fs, written>>

\* the path worker k is saving, or is about to save
CurrentPath(k) ==
    OutputPath(work_items[wk[k].item].file_path, wk[k].suffixes[wk[k].k])

FsWith(path, file) ==
    [p \in DOMAIN fs \cup {path} |-> IF p = path THEN file ELSE fs[p]]
FsWithout(path) ==
    [p \in DOMAIN fs \ {path} |-> fs[p]]

\* lines 113-119: composite and resize crop k, then Image.save opens
\* output_path for writing, which creates or truncates the file
BeginSave(k) ==
    /\ alive /\ mpc = "map"
    /\ wk[k].pc = "loop"
    /\ Composite(wk[k].crops[wk[k].k]).size = <<OutDim, OutDim>>
    /\ fs' = FsWith(CurrentPath(k), [state |-> "partial", by |-> wk[k].item])
    /\ wk' = [wk EXCEPT ![k].pc = "saving",
                        ![k].created = CurrentPath(k) \notin DOMAIN fs]
    /\ UNCHANGED <<argMode, argWorkers, rawExists, listing, mpc, exitCode,
                   alive, work_items, taskq, attempts, handlers, result,
                   written, opened>>

\* line 119, second half: the encoder writes the image and the file is
\* closed; lines 112 and 120: the next crop, or the end of process_image
EndSave(k) ==
    /\ alive /\ mpc = "map"
    /\ wk[k].pc = "saving"
    /\ fs' = FsWith(CurrentPath(k), [state |-> "full", by |-> wk[k].item])
    /\ written' = [written EXCEPT ![wk[k].item] =
                       Append(@, wk[k].suffixes[wk[k].k])]
    /\ IF wk[k].k = Min(Len(wk[k].crops), Len(wk[k].suffixes))
       THEN /\ result' = [result EXCEPT ![wk[k].item] = "ok"]
            /\ wk' = [wk EXCEPT ![k] = IdleWorker(wk[k].chunk)]
       ELSE /\ wk' = [wk EXCEPT ![k].pc = "loop", ![k].k = @ + 1,
                               ![k].created = FALSE]
            /\ UNCHANGED result
    /\ UNCHANGED <<argMode, argWorkers, rawExists, listing, mpc, exitCode,
                   alive, work_items, taskq, attempts, handlers, opened>>

\* seeded fault: a failed save deletes what the work item has written so far
FsAfterFailedSave_rollback(k, cleans) ==
    [p \in {q \in DOMAIN fs : fs[q].by # wk[k].item} |-> fs[p]]

\* the files after a save of worker k failed: an Image.save that cleans up
\* removes the file it was writing when it had created it, one that does
\* not leaves it as it is; nothing else is touched
FsAfterFailedSave(k, cleans) ==
    IF wk[k].pc = "saving" /\ wk[k].created /\ cleans
    THEN FsWithout(CurrentPath(k))
    ELSE fs

\* line 119 raising (the file cannot be opened, or a write fails), caught
\* at lines 127-128
FailSave(k) ==
    /\ alive /\ mpc = "map"
    /\ wk[k].pc \in {"loop", "saving"}
    /\ \E cleans \in BOOLEAN : fs' = FsAfterFailedSave(k, cleans)
    /\ HandleException(k, wk[k].item, wk[k].chunk)
    /\ UNCHANGED <<argMode, argWorkers, rawExists, listing, alive, work_items,
                   taskq, attempts, handlers, written, opened>>

\* lines 158-160: pool.map returns once every chunk is done; main() logs
\* and returns, exit status 0
MapReturn ==
    /\ alive /\ mpc = "map"
    /\ taskq = <<>>
    /\ \A k \in Workers : wk[k].pc = "idle" /\ wk[k].chunk = <<>>
    /\ Exit(0)
    /\ UNCHANGED <<argMode, argWorkers, rawExists, listing, alive, work_items,
                   taskq, wk, fs, attempts, handlers, result, written, opened>>

\* the process (main and its pool) is killed from outside
Terminate ==
    /\ alive /\ mpc # "exited"
    /\ alive' = FALSE
    /\ UNCHANGED <<argMode, argWorkers, rawExists, listing, mpc, exitCode,
                   work_items, taskq, wk, fs, attempts, handlers, result,
                   written, opened>>

Next ==
    \/ ParseArgs /\ UNCHANGED <<cropVars, nameVars>>
    \/ Enumerate /\ UNCHANGED <<cropVars, nameVars>>
    \/ StartPool /\ UNCHANGED <<cropVars, nameVars>>
    \/ \E k \in Workers : WorkerStart(k) /\ UNCHANGED <<cropVars, nameVars>>
    \/ \E k \in Workers : BeginSave(k) /\ UNCHANGED <<cropVars, nameVars>>
    \/ \E k \in Workers : EndSave(k) /\ UNCHANGED <<cropVars, nameVars>>
    \/ \E k \in Workers : FailSave(k) /\ UNCHANGED <<cropVars, nameVars>>
    \/ MapReturn /\ UNCHANGED <<cropVars, nameVars>>
    \/ Terminate /\ UNCHANGED <<cropVars, nameVars>>

Spec == Init /\ [][Next]_vars

(***************************************************************************)
(* Claims about the batch (Spec).                                          *)
(***************************************************************************)
Completed == mpc = "exited" /\ exitCode = 0
Aborted == mpc = "exited" /\ exitCode # 0
SomeItemFailed == \E i \in Items : result[i] = "failed"

\* the suffixes the claims prescribe for work item i
ItemSuffixes(i) ==
    LET size == StoredSize(get_basename(work_items[i].file_path))
    IN ClaimedSuffixes(size[1], size[2], work_items[i].mode)

\* a step of a worker or of pool.map's return
BatchStep ==
    \/ \E k \in Workers : WorkerStart(k) \/ BeginSave(k) \/ EndSave(k)
    \/ MapReturn

\* C4: an error while processing one work item (decode or write failure)
\* is caught at the worker boundary and does not abort the batch: every
\* other item is still processed and produces its outputs, the batch
\* completes, and the exit code is 0 however many items failed.
C4_FailureIsolation ==
    /\ SomeItemFailed => mpc = "map" \/ Completed
    /\ (alive /\ mpc = "map") => ENABLED BatchStep
    /\ Completed =>
           \A i \in Items :
               /\ result[i] \in {"ok", "failed"}
               /\ result[i] = "ok" => written[i] = ItemSuffixes(i)

C4_Witness ==
    /\ Completed
    /\ Len(work_items) = 2
    /\ result[1] = "failed" /\ written[1] = <<>>
    /\ result[2] = "ok" /\ Len(written[2]) = 3

\* what makes a run fatal: the mode, the --workers value, a missing raw/
Fatal ==
    \/ argMode \notin {1, 2, 3}
    \/ ~argWorkers.isInt
    \/ argWorkers.value < 1
    \/ ~rawExists

\* C5: a mode outside {1,2,3}, an invalid workers value or a missing raw/
\* aborts the run with a non-zero exit before any work item is processed:
\* no image is opened and no output file is written.
C5_FatalAbortsBeforeWork ==
    Fatal =>
        /\ mpc \in {"parse", "enumerate", "pool", "exited"}
        /\ mpc = "exited" => exitCode # 0
        /\ (alive /\ mpc # "exited") =>
               ENABLED (ParseArgs \/ Enumerate \/ StartPool)
        /\ opened = 0
        /\ DOMAIN fs = {}
        /\ \A i \in Items : attempts[i] = 0 /\ result[i] = "none"

C5_Witness ==
    /\ Aborted
    /\ argMode = 3 /\ rawExists /\ argWorkers.isInt /\ argWorkers.value = 0
    /\ Len(work_items) = 2

\* C6: for any worker count >= 1 and any interleaving, when the batch
\* completes every enumerated work item has been processed end to end
\* exactly once, by exactly one worker; a failed item is never attempted a
\* second time.
C6_ExactlyOnce ==
    /\ \A i \in Items :
           /\ attempts[i] <= 1
           /\ Cardinality(handlers[i]) = attempts[i]
           /\ result[i] # "none" =>
                  /\ attempts[i] = 1
                  /\ \A k \in Workers :
                         /\ wk[k].item # i
                         /\ \A j \in 1 .. Len(wk[k].chunk) :
                                wk[k].chunk[j] # i
                  /\ \A c \in 1 .. Len(taskq) :
                         \A j \in 1 .. Len(taskq[c]) : taskq[c][j] # i
    /\ Completed =>
           /\ Len(work_items) = Len(SelectSeq(listing, Eligible))
           /\ \A i \in Items :
                  /\ attempts[i] = 1
                  /\ Cardinality(handlers[i]) = 1
                  /\ result[i] \in {"ok", "failed"}

C6_Witness ==
    /\ Completed
    /\ argWorkers.value = 2
    /\ Len(work_items) = 2
    /\ handlers[1] = {2} /\ handlers[2] = {1}
    /\ result[1] = "ok" /\ result[2] = "failed"

\* C8: if the process is terminated at any point during a batch, every
\* output file is either fully written or not present: no partially
\* written file is left at its final path.
C8_NoPartialFile ==
    ~alive => \A p \in DOMAIN fs : fs[p].state = "full"

\* the paths of the crops of work item i whose save has returned
SiblingPaths(i) ==
    {OutputPath(work_items[i].file_path, written[i][j]) :
         j \in 1 .. Len(written[i])}

\* C9: when writing one crop of a work item fails, the crops of that item
\* already written stay in place unchanged (no rollback, no deletion), and
\* the failure is a per-file error of that work item only.
C9_NoRollback ==
    [][\A i \in Items :
          (result[i] = "none" /\ result'[i] = "failed") =>
              /\ \A p \in SiblingPaths(i) :
                     /\ p \in DOMAIN fs <=> p \in DOMAIN fs'
                     /\ p \in DOMAIN fs => fs'[p] = fs[p]
              /\ written' = written
              /\ mpc' = mpc /\ exitCode' = exitCode
              /\ \A j \in Items \ {i} : result'[j] = result[j]
              /\ \A k \in Workers : wk[k].item # i => wk'[k] = wk[k]]_vars

C9_Witness ==
    /\ \E i \in Items :
           /\ result[i] = "failed"
           /\ Len(written[i]) = 2
           /\ \A p \in SiblingPaths(i) :
                  p \in DOMAIN fs /\ fs[p] = [state |-> "full", by |-> i]
    /\ Completed

====
